---- MODULE Spec2Model ----
(***************************************************************************)
(* A model of petpipe: the BIDS filename builders and the JSON sidecar     *)
(* merger of utils.py, and the ECAT-to-BIDS conversion script pet2bids.py  *)
(* with its bookkeeping tables.                                            *)
(*                                                                         *)
(* Strings are sequences of atoms (TLA+ strings that are never split), so  *)
(* that formatting, joining, splitting and str.replace are computed.       *)
(***************************************************************************)
EXTENDS Integers, Sequences, FiniteSets, TLC

VARIABLES
    kwargs,     \* the keyword arguments given to a filename builder, in call order
    built,      \* the outcome of the last builder construction + build()
    json_pet,   \* content of the file at the "new" sidecar path, or Absent
    json_subject, \* content of the file at the "existing" sidecar path, or Absent
    merged,     \* the outcome of the last merge_json_files call
    pet_trc,    \* the argument given to compute_average_4D_image
    averaged,   \* the outcome of the last compute_average_4D_image call
    tree,       \* the directories and plain files under the BIDS root, as paths
    tsv,        \* the tab-separated tables under the BIDS root: path -> content
    pc,         \* where the running pet2bids.py invocation is
    args,       \* its command line and the names it derived from it
    trace,      \* what the running (or last) invocation has done so far
    status,     \* its exit status once pc = "exit"
    runs,       \* the number of invocations started
    lib,        \* the outcome of the last call of utils.convert_ecat_to_bids
    procs       \* two invocations at their bookkeeping at once: each one's position
                \* and the frames it has read

nameVars  == <<kwargs, built>>
mergeVars == <<json_pet, json_subject, merged>>
avgVars == <<pet_trc, averaged>>
concVars == <<procs>>
fsVars == <<tree, tsv>>
procVars == <<pc, args, trace, status, runs>>
scriptVars == <<tree, tsv, pc, args, trace, status, runs, lib>>
vars == <<kwargs, built, json_pet, json_subject, merged, pet_trc, averaged,
          tree, tsv, pc, args, trace, status, runs, lib, procs>>

\* ------------------------------------------------------------------ bounds
MaxTags == 4        \* most keyword arguments in one builder call
MaxDocLen == 2      \* most key/value members in one JSON text
MaxRuns == 2        \* most invocations of pet2bids.py in one behaviour
MaxTime == 2        \* the processing times a run can measure: 1..MaxTime
MaxPaths == 4       \* most paths in one list given to compute_average_4D_image

\* ----------------------------------------------------------------- strings
RECURSIVE Join(_, _)
\* sep.join(parts)
Join(parts, sep) ==
    IF parts = <<>> THEN <<>>
    ELSE IF Len(parts) = 1 THEN parts[1]
    ELSE parts[1] \o <<sep>> \o Join(Tail(parts), sep)

RECURSIVE Split(_, _)
\* s.split(sep): the inverse the properties read names with
Split(s, sep) ==
    IF \A i \in 1..Len(s) : s[i] # sep THEN <<s>>
    ELSE LET i == CHOOSE j \in 1..Len(s) :
                      s[j] = sep /\ \A k \in 1..(j - 1) : s[k] # sep
         IN <<SubSeq(s, 1, i - 1)>> \o Split(SubSeq(s, i + 1, Len(s)), sep)

Last(seq) == seq[Len(seq)]
InSet(x, seq) == \E i \in 1..Len(seq) : seq[i] = x

Digit(d) == <<"0", "1", "2", "3", "4", "5", "6", "7", "8", "9">>[d + 1]

RECURSIVE IntStr(_)
\* str(n) of a non-negative int
IntStr(n) == IF n < 10 THEN <<Digit(n)>> ELSE IntStr(n \div 10) \o <<Digit(n % 10)>>

\* A Python value: t is its type, s its text when a str, n its value when an int.
StrVal(s) == [t |-> "str", s |-> s, n |-> 0]
IntVal(n) == [t |-> "int", s |-> <<>>, n |-> n]
NoneVal   == [t |-> "NoneType", s |-> <<>>, n |-> 0]

\* f"{v}"
PyStr(v) == IF v.t = "str" THEN v.s
            ELSE IF v.t = "int" THEN IntStr(v.n)
            ELSE <<"None">>

\* key in self.values / self.values[key], for kwargs kept as a sequence of
\* <<key, value>> pairs in the order the caller wrote them
HasKey(values, key) == \E i \in 1..Len(values) : values[i][1] = key
GetVal(values, key) == values[CHOOSE i \in 1..Len(values) : values[i][1] = key][2]

\* ------------------------------------------------------- filename builders
PetKeys == <<"sub", "ses", "task", "trc", "rec", "run", "desc">>
DerivativeKeys == <<"sub", "ses", "hemi", "surf", "from", "to", "space", "label",
                    "smooth", "pvc", "ref", "desc", "trc">>
AnatKeys == <<"sub", "ses", "task", "acq", "ce", "rec", "run", "echo", "part",
              "chunk", "suffix">>
ALLOWED_SUFFIXES == {<<"FLAIR">>, <<"PDT2">>, <<"PDw">>, <<"T1w">>, <<"T2starw">>,
                     <<"T2w">>, <<"UNIT1">>, <<"angio">>, <<"inplaneT1">>,
                     <<"inplaneT2">>}

\* Variant of the loop that walks the supplied keywords instead of self.keys.
RECURSIVE PetPartsAnyOrder(_, _)
PetPartsAnyOrder(keys, values) ==
    IF values = <<>> THEN <<>>
    ELSE (IF \E i \in 1..Len(keys) : keys[i] = Head(values)[1]
          THEN << <<Head(values)[1], "-">> \o PyStr(Head(values)[2]) >>
          ELSE <<>>)
         \o PetPartsAnyOrder(keys, Tail(values))

BIDSpetName_build_SuppliedOrder(values) ==
    Join(PetPartsAnyOrder(<<"sub", "ses", "task", "trc", "rec", "run", "desc">>, values)
         \o << <<"pet">> >>, "_")

RECURSIVE PetParts(_, _)
\* the loop of BIDSpetName.build: for key in self.keys: if key in self.values
PetParts(keys, values) ==
    IF keys = <<>> THEN <<>>
    ELSE (IF HasKey(values, Head(keys))
          THEN << <<Head(keys), "-">> \o PyStr(GetVal(values, Head(keys))) >>
          ELSE <<>>)
         \o PetParts(Tail(keys), values)

BIDSpetName_build(values) == Join(PetParts(PetKeys, values) \o << <<"pet">> >>, "_")

\* one iteration of the loop shared by BIDSName.build and BIDSderivativeName.build
\* for a key other than "suffix"
TagPart(key, v) ==
    IF v.t = "str" THEN << <<key, "-">> \o v.s >>
    ELSE IF v.t = "int" THEN << <<key, "-">> \o IntStr(v.n) >>
    ELSE <<>>

\* Variant of BIDSName.build that emits every supplied keyword, listed or not.
RECURSIVE AnatPartsKeepUnknown(_)
AnatPartsKeepUnknown(values) ==
    IF values = <<>> THEN <<>>
    ELSE (IF Head(values)[1] = "suffix" THEN <<>>
          ELSE TagPart(Head(values)[1], Head(values)[2]))
         \o AnatPartsKeepUnknown(Tail(values))

BIDSName_build_KeepUnknown(values) ==
    Join(AnatPartsKeepUnknown(values)
         \o (IF HasKey(values, "suffix") THEN <<PyStr(GetVal(values, "suffix"))>> ELSE <<>>),
         "_")

RECURSIVE AnatParts(_, _)
\* the loop of BIDSName.build
AnatParts(keys, values) ==
    IF keys = <<>> THEN <<>>
    ELSE (IF HasKey(values, Head(keys))
          THEN IF Head(keys) = "suffix"
               THEN <<PyStr(GetVal(values, "suffix"))>>
               ELSE TagPart(Head(keys), GetVal(values, Head(keys)))
          ELSE <<>>)
         \o AnatParts(Tail(keys), values)

BIDSName_build(values) == Join(AnatParts(AnatKeys, values), "_")

\* Variant of BIDSName.__init__ without the suffix validation.
BIDSName_init_NoCheck(values) == FALSE

\* BIDSName.__init__: TRUE when it raises ValueError
BIDSName_init_raises(values) ==
    /\ HasKey(values, "suffix")
    /\ ~ (/\ GetVal(values, "suffix").t = "str"
          /\ GetVal(values, "suffix").s \in ALLOWED_SUFFIXES)

RECURSIVE DerivativeParts(_, _)
\* the loop of BIDSderivativeName.build; self.keys holds no "suffix", so the
\* suffix branch is never taken with the keys the class sets
DerivativeParts(keys, values) ==
    IF keys = <<>> THEN <<>>
    ELSE (IF HasKey(values, Head(keys))
          THEN IF Head(keys) = "suffix"
               THEN (IF GetVal(values, "suffix") # StrVal(<<"surf">>)
                     THEN <<PyStr(GetVal(values, "suffix"))>>
                     ELSE <<>>)
               ELSE TagPart(Head(keys), GetVal(values, Head(keys)))
          ELSE <<>>)
         \o DerivativeParts(Tail(keys), values)

BIDSderivativeName_build(values) == Join(DerivativeParts(DerivativeKeys, values), "_")

NoBuild == [op |-> "none", raised |-> "none", name |-> <<>>]

\* ------------------------------------------------------------ builder calls
\* The keyword names and values the calls are drawn from.
TagNames == {"sub", "ses", "trc", "rec", "run", "desc", "suffix", "foo"}
TagValues(key) ==
    CASE key = "sub"    -> {StrVal(<<"01">>)}
      [] key = "ses"    -> {StrVal(<<"01">>)}
      [] key = "trc"    -> {StrVal(<<"mk6240">>)}
      [] key = "rec"    -> {StrVal(<<"acdyn">>)}
      [] key = "run"    -> {IntVal(12), NoneVal}
      [] key = "desc"   -> {StrVal(<<"average">>)}
      [] key = "suffix" -> {StrVal(<<"T1w">>), StrVal(<<"pet">>), StrVal(<<"xfm">>)}
      [] OTHER          -> {StrVal(<<"bar">>)}

RECURSIVE KwargsOfLen(_)
\* every call with n distinct keywords, in every order (a keyword cannot repeat
\* in a Python call)
KwargsOfLen(n) ==
    IF n = 0 THEN {<<>>}
    ELSE UNION {UNION {{Append(kw, <<k, v>>) : v \in TagValues(k)} :
                         k \in {x \in TagNames : ~ HasKey(kw, x)}} :
                kw \in KwargsOfLen(n - 1)}

KwargsSet == UNION {KwargsOfLen(n) : n \in 0..MaxTags}


\* ------------------------------------------------------------ JSON sidecars
\* A file is absent or holds a JSON text: the members of one object in the order
\* they are written, a key possibly written twice.
Absent == [exists |-> FALSE, text |-> <<>>]
File(text) == [exists |-> TRUE, text |-> text]

JsonKeys == {"K", "L", "M"}
JsonValues == {"A", "B"}

RECURSIVE TextsOfLen(_)
TextsOfLen(n) ==
    IF n = 0 THEN {<<>>}
    ELSE {Append(t, m) : t \in TextsOfLen(n - 1), m \in JsonKeys \X JsonValues}

JsonTexts == UNION {TextsOfLen(n) : n \in 0..MaxDocLen}
JsonFiles == {Absent} \cup {File(t) : t \in JsonTexts}

\* d[key] = value on a Python dict kept as a sequence of <<key, value>> in
\* insertion order: a key already present keeps its place and takes the value
DictSet(d, key, value) ==
    IF HasKey(d, key)
    THEN [i \in 1..Len(d) |-> IF d[i][1] = key THEN <<key, value>> ELSE d[i]]
    ELSE Append(d, <<key, value>>)

RECURSIVE DictUpdate(_, _)
\* {**d, **e}
DictUpdate(d, e) ==
    IF e = <<>> THEN d
    ELSE DictUpdate(DictSet(d, Head(e)[1], Head(e)[2]), Tail(e))

\* json.load(f) / json.dump(d, f)
JsonLoad(text) == DictUpdate(<<>>, text)
JsonDump(d) == d

NoMerge == [called |-> FALSE, raised |-> "none", pre_pet |-> Absent,
            pre_subject |-> Absent]

\* Variant that fails when the existing document is absent.
MergeOutcome_ExistingRequired(pet, subject) ==
    IF subject.exists /\ pet.exists
    THEN [raised |-> "none",
          pet |-> File(JsonDump(DictUpdate(JsonLoad(pet.text), JsonLoad(subject.text))))]
    ELSE [raised |-> "FileNotFoundError", pet |-> pet]

\* Variant with the operands swapped: {**existing_data, **new_data}.
MergeOutcome_NewWins(pet, subject) ==
    IF pet.exists
    THEN [raised |-> "none",
          pet |-> File(JsonDump(DictUpdate(
                     IF subject.exists THEN JsonLoad(subject.text) ELSE <<>>,
                     JsonLoad(pet.text))))]
    ELSE [raised |-> "FileNotFoundError", pet |-> pet]

\* Variant that takes an absent new document as empty and writes the file.
MergeOutcome_NewOptional(pet, subject) ==
    [raised |-> "none",
     pet |-> File(JsonDump(DictUpdate(
                IF pet.exists THEN JsonLoad(pet.text) ELSE <<>>,
                IF subject.exists THEN JsonLoad(subject.text) ELSE <<>>)))]

\* merge_json_files(json_pet, json_subject): what it raises and what the file at
\* json_pet holds afterwards
MergeOutcome(pet, subject) ==
    LET existing_data == IF subject.exists THEN JsonLoad(subject.text) ELSE <<>>
    IN IF pet.exists
       THEN LET new_data == JsonLoad(pet.text)
                merged_data == DictUpdate(new_data, existing_data)
            IN [raised |-> "none", pet |-> File(JsonDump(merged_data))]
       ELSE [raised |-> "FileNotFoundError", pet |-> pet]


\* ---------------------------------------------------------- 4D averaging
\* An image is known by the number of its dimensions, len(nib.load(path).shape);
\* the argument is one path (a str) or a list of paths
Ndims == {3, 4, 5}
PathLists == UNION {[1..n -> Ndims] : n \in 0..MaxPaths}
AverageInputs ==
    {[is_str |-> TRUE, images |-> <<d>>] : d \in Ndims}
    \cup {[is_str |-> FALSE, images |-> l] : l \in PathLists}

\* the loop of lines 177-189: the mean of each 4D image, named by the position
\* of its path in the argument, in the order of the paths
RECURSIVE pet_mean_images(_, _)
pet_mean_images(images, i) ==
    IF i > Len(images) THEN <<>>
    ELSE (IF images[i] = 4 THEN <<[mean_of |-> i]>> ELSE <<>>)
         \o pet_mean_images(images, i + 1)

NoAverage == [called |-> FALSE, raised |-> "none", is_list |-> FALSE, images |-> <<>>]

\* compute_average_4D_image(pet_trc): line 192 returns the list when it holds
\* more than one mean and else its first element, which an empty list has not
compute_average_4D_image(arg) ==
    LET means == pet_mean_images(arg.images, 1)
    IN IF Len(means) > 1
       THEN [called |-> TRUE, raised |-> "none", is_list |-> TRUE, images |-> means]
       ELSE IF Len(means) = 1
            THEN [called |-> TRUE, raised |-> "none", is_list |-> FALSE, images |-> means]
            ELSE [called |-> TRUE, raised |-> "IndexError", is_list |-> FALSE,
                  images |-> <<>>]

AverageIdle ==
    /\ pet_trc = [is_str |-> FALSE, images |-> <<>>]
    /\ averaged = NoAverage

\* ------------------------------------------------------------------ tables
\* A data frame: the column names in order and the rows, each row a function
\* from the column names to cells. A cell is a string; NaN is the missing cell.
NaN == <<>>
SeqToSet(seq) == {seq[i] : i \in 1..Len(seq)}
\* a Python dict literal kept as a sequence of <<key, value>>: a key written
\* twice keeps its first place and its last value
DictOf(pairs) == DictUpdate(<<>>, pairs)
DictKeys(d) == [i \in 1..Len(d) |-> d[i][1]]

\* pd.DataFrame(columns=header)
EmptyFrame(header) == [header |-> header, rows |-> <<>>]

\* one row over `header` from a dict: the dict's value where it has the column,
\* missing elsewhere
RowOver(header, d) ==
    [c \in SeqToSet(header) |-> IF HasKey(d, c) THEN GetVal(d, c) ELSE NaN]

\* df.to_csv(path, sep='\t', index=False): the header line and one line of
\* cells per row, in column order
ToCsv(df) ==
    [header |-> df.header,
     lines |-> [i \in 1..Len(df.rows) |->
                  [j \in 1..Len(df.header) |-> df.rows[i][df.header[j]]]]]

\* pd.read_csv(path, sep='\t'): cells are given to columns by position
ReadCsv(file) ==
    [header |-> file.header,
     rows |-> [i \in 1..Len(file.lines) |->
                 [c \in SeqToSet(file.header) |->
                    file.lines[i][CHOOSE j \in 1..Len(file.header) : file.header[j] = c]]]]

\* Variant that keeps the matching rows and drops the others.
DropWhere_KeepMatching(df, col, value) ==
    [df EXCEPT !.rows = SelectSeq(@, LAMBDA r : r[col] = value)]

\* df[df[col] != value]
DropWhere(df, col, value) ==
    [df EXCEPT !.rows = SelectSeq(@, LAMBDA r : r[col] # value)]

\* pd.concat([df, pd.DataFrame([d])], ignore_index=True): the columns are df's
\* followed by those only d has; cells nobody gave are missing
Concat(df, d) ==
    LET added == SelectSeq(DictKeys(d), LAMBDA c : c \notin SeqToSet(df.header))
        header == df.header \o added
    IN [header |-> header,
        rows |-> [i \in 1..Len(df.rows) |->
                    [c \in SeqToSet(header) |->
                       IF c \in SeqToSet(df.header) THEN df.rows[i][c] ELSE NaN]]
                 \o <<RowOver(header, d)>>]

\* df[(df["sub"] == sub) & (df["ses"] == ses)].index
find_existing_row_index(df, sub, ses) ==
    {i \in 1..Len(df.rows) : df.rows[i]["sub"] = sub /\ df.rows[i]["ses"] = ses}

\* df.loc[index] = series, index a pd.Index of row labels and series indexed by
\* column names. pandas aligns a Series given to a list-like row indexer on the
\* ROW labels (ser.reindex(df.index[index])): the labels are the integers of the
\* RangeIndex, none of them a column name, so every aligned value is missing and
\* each selected row is set to missing in every column.
LocAssignSeries(df, index, series) ==
    [df EXCEPT !.rows =
        [i \in 1..Len(df.rows) |->
            IF i \in index THEN [c \in SeqToSet(df.header) |-> NaN] ELSE df.rows[i]]]

\* the columns read_csv gives an integer dtype: the counts, when no cell of the
\* column is missing
HasIntColumn(df) ==
    \E c \in SeqToSet(df.header) \cap {"N.anat", "N.dwi", "N.pet"} :
        \A i \in 1..Len(df.rows) : df.rows[i][c] # NaN

\* --------------------------------------------------------------- pet2bids.py
RECURSIVE Remove(_, _)
\* s.replace(old, '')
Remove(s, old) ==
    IF Len(s) < Len(old) THEN s
    ELSE IF SubSeq(s, 1, Len(old)) = old
         THEN Remove(SubSeq(s, Len(old) + 1, Len(s)), old)
         ELSE <<Head(s)>> \o Remove(Tail(s), old)
\* os.path.join / "/" in an f-string: a path is the sequence of its components
\* below the BIDS root; the root itself is <<>>
IsUnder(path, dir) == Len(path) >= Len(dir) /\ SubSeq(path, 1, Len(dir)) = dir

SubArgs == {<<"01">>, <<"sub", "-", "01">>, <<"PX", "02">>}
SesArgs == {<<"01">>, <<"ses", "-", "01">>, <<"02">>}

\* session = f"ses-{args.ses.replace('ses-', '')}" and subject likewise
session_of(ses) == <<"ses", "-">> \o Remove(ses, <<"ses", "-">>)
subject_of(sub) == <<"sub", "-">> \o Remove(sub, <<"sub", "-">>)
\* subject_dir = f"{bids_dir}/sub-{subject}/ses-{session}"
subject_dir_of(subject, session) == << <<"sub", "-">> \o subject, <<"ses", "-">> \o session >>

subject_dir == subject_dir_of(args.subject, args.session)

NoArgs == [sub |-> <<>>, ses |-> <<>>, force |-> FALSE, subject |-> <<>>,
           session |-> <<>>]

\* an entry of the trace; a dcm2niix entry tells its exit status and whether the
\* NIfTI was there afterwards, a log entry the processing time it measured
Ev(name) == [ev |-> name, exit |-> 0, nifti |-> TRUE, time |-> 0]
Exit(code) == pc' = "exit" /\ status' = code

\* Variant that removes the whole directory of the subject.
rmtree_SubjectLevel(t, dir) == {p \in t : ~ IsUnder(p, SubSeq(dir, 1, 1))}

\* shutil.rmtree(dir)
rmtree(t, dir) == {p \in t : ~ IsUnder(p, dir)}
\* os.makedirs(dir, exist_ok=True)
makedirs(t, dir) == t \cup {SubSeq(dir, 1, n) : n \in 0..Len(dir)}

NoLib == [called |-> FALSE, raised |-> "none", calls |-> 0, merges |-> 0,
          exit |-> 0, nifti |-> FALSE]

\* Variant without the os.path.isfile(nifti_file) check.
pet2bids_convert_NoOutputCheck(exit, nifti, sidecar, json) ==
    IF exit # 0 THEN [calls |-> 1, merges |-> 0, raised |-> "SystemExit"]
    ELSE IF json
         THEN [calls |-> 1, merges |-> 1,
               raised |-> MergeOutcome(IF sidecar THEN File(<<>>) ELSE Absent, Absent).raised]
         ELSE [calls |-> 1, merges |-> 0, raised |-> "none"]

\* pet2bids.convert_ecat_to_bids, given what dcm2niix did (its exit status,
\* whether the NIfTI and the sidecar are there afterwards) and whether json is
\* given: the dcm2niix runs, the merges begun and what ends the call
pet2bids_convert_ecat_to_bids(exit, nifti, sidecar, json) ==
    IF exit # 0 THEN [calls |-> 1, merges |-> 0, raised |-> "SystemExit"]
    ELSE IF ~ nifti THEN [calls |-> 1, merges |-> 0, raised |-> "SystemExit"]
    ELSE IF json
         THEN [calls |-> 1, merges |-> 1,
               raised |-> MergeOutcome(IF sidecar THEN File(<<>>) ELSE Absent, Absent).raised]
         ELSE [calls |-> 1, merges |-> 0, raised |-> "none"]

\* utils.convert_ecat_to_bids, the same with RuntimeError for sys.exit(1)
utils_convert_ecat_to_bids(exit, nifti, sidecar, json) ==
    IF exit # 0 THEN [calls |-> 1, merges |-> 0, raised |-> "RuntimeError"]
    ELSE IF ~ nifti THEN [calls |-> 1, merges |-> 0, raised |-> "RuntimeError"]
    ELSE IF json
         THEN [calls |-> 1, merges |-> 1,
               raised |-> MergeOutcome(IF sidecar THEN File(<<>>) ELSE Absent, Absent).raised]
         ELSE [calls |-> 1, merges |-> 0, raised |-> "none"]

ScriptIdle ==
    /\ tree = {<<>>}
    /\ tsv = <<>>
    /\ pc = "idle"
    /\ args = NoArgs
    /\ trace = <<>>
    /\ status = 0
    /\ runs = 0
    /\ lib = NoLib
    /\ procs = <<>>

LibIdle ==
    /\ kwargs = <<>>
    /\ built = NoBuild
    /\ json_pet = Absent
    /\ json_subject = Absent
    /\ merged = NoMerge
    /\ AverageIdle

\* the BIDS root is a directory or is not there; nothing has run
Init ==
    /\ LibIdle
    /\ tree \in {{}, {<<>>}}
    /\ tsv = <<>>
    /\ pc = "idle"
    /\ args = NoArgs
    /\ trace = <<>>
    /\ status = 0
    /\ runs = 0
    /\ lib = NoLib
    /\ procs = <<>>

pet_image == BIDSpetName_build(<<<<"trc", StrVal(<<"mk6240">>)>>, <<"sub", StrVal(args.subject)>>,
                                 <<"ses", StrVal(args.session)>>, <<"rec", StrVal(<<"acdyn">>)>>>>)
tx_image == BIDSpetName_build(<<<<"sub", StrVal(args.subject)>>, <<"ses", StrVal(args.session)>>,
                                <<"desc", StrVal(<<"LinearAtenuationMap">>)>>>>)
t1_str == BIDSName_build(<<<<"suffix", StrVal(<<"T1w">>)>>, <<"sub", StrVal(args.subject)>>,
                           <<"ses", StrVal(args.session)>>>>)
mandatory_files == <<<<"CITATION.cff">>, <<"dataset_description.json">>, <<".bidsignore">>,
                     <<"participants.json">>, <<"trc-MK6240_pet.json">>, <<"README">>>>

tsv_file == << <<"participants_bic2bids.tsv">> >>
participants_tsv == << <<"participants.tsv">> >>
sessions_tsv == << <<"sub", "-">> \o args.subject,
                   <<"sub", "-">> \o args.subject \o <<"_sessions.tsv">> >>

Write(t, path, df) == [q \in DOMAIN t \cup {path} |-> IF q = path THEN ToCsv(df) ELSE t[q]]
\* if not os.path.isfile(path): pd.DataFrame(columns=header).to_csv(path)
Ensure(t, path, header) ==
    IF path \in DOMAIN t THEN t ELSE Write(t, path, EmptyFrame(header))

\* lines 57-79: parse and normalise the arguments, look for the subject's T1.
\* With no T1w found the script reports it and then indexes the empty glob
\* result, which ends it with IndexError.
Invoke ==
    /\ pc \in {"idle", "exit"}
    /\ runs < MaxRuns
    /\ runs' = runs + 1
    /\ \E sub \in SubArgs, ses \in SesArgs, force \in BOOLEAN, t1 \in BOOLEAN :
         /\ args' = [sub |-> sub, ses |-> ses, force |-> force,
                     subject |-> subject_of(sub), session |-> session_of(ses)]
         /\ IF t1
            THEN pc' = "force" /\ status' = 0 /\ trace' = <<>>
            ELSE Exit(1) /\ trace' = <<Ev("no_t1")>>
    /\ lib' = NoLib
    /\ UNCHANGED <<fsVars, nameVars, mergeVars, avgVars, concVars>>

\* Variant in which -force removes nothing.
ForceStep_NoRemoval ==
    /\ pc = "force"
    /\ pc' = "check"
    /\ UNCHANGED <<tree, trace, tsv, args, status, runs, lib, nameVars, mergeVars, avgVars,
                   concVars>>

\* lines 81-83
ForceStep ==
    /\ pc = "force"
    /\ IF args.force /\ subject_dir \in tree
       THEN tree' = rmtree(tree, subject_dir) /\ trace' = Append(trace, Ev("rmtree"))
       ELSE UNCHANGED <<tree, trace>>
    /\ pc' = "check"
    /\ UNCHANGED <<tsv, args, status, runs, lib, nameVars, mergeVars, avgVars, concVars>>

\* Variant without the check of lines 94-96 for an existing output directory.
CheckInputs_NoOutputCheck ==
    /\ pc = "check"
    /\ \E pet_dir_ok \in BOOLEAN :
         IF ~ pet_dir_ok THEN Exit(1) /\ trace' = Append(trace, Ev("no_pet_dir"))
         ELSE IF <<>> \notin tree THEN Exit(1) /\ trace' = Append(trace, Ev("no_bids_dir"))
         ELSE pc' = "makedirs" /\ UNCHANGED <<status, trace>>
    /\ UNCHANGED <<fsVars, args, runs, lib, nameVars, mergeVars, avgVars, concVars>>

\* lines 85-96; the T1 json was found by the glob, so its warning stays silent
CheckInputs ==
    /\ pc = "check"
    /\ \E pet_dir_ok \in BOOLEAN :
         IF ~ pet_dir_ok THEN Exit(1) /\ trace' = Append(trace, Ev("no_pet_dir"))
         ELSE IF <<>> \notin tree THEN Exit(1) /\ trace' = Append(trace, Ev("no_bids_dir"))
         ELSE IF subject_dir \in tree THEN Exit(1) /\ trace' = Append(trace, Ev("output_exists"))
         ELSE pc' = "makedirs" /\ UNCHANGED <<status, trace>>
    /\ UNCHANGED <<fsVars, args, runs, lib, nameVars, mergeVars, avgVars, concVars>>

\* lines 115-118
MakeDirs ==
    /\ pc = "makedirs"
    /\ tree' = makedirs(makedirs(makedirs(tree, subject_dir),
                                 Append(subject_dir, <<"anat">>)),
                        Append(subject_dir, <<"pet">>))
    /\ trace' = Append(trace, Ev("makedirs"))
    /\ pc' = "convert1"
    /\ UNCHANGED <<tsv, args, status, runs, lib, nameVars, mergeVars, avgVars, concVars>>

\* What a dcm2niix run can leave: <<exit status, NIfTI written, sidecar written>>.
\* It fails writing nothing, ends well writing nothing, or writes the image
\* with or without its sidecar (and may still report a failure).
ConverterOutcomes == {<<1, FALSE, FALSE>>, <<0, FALSE, FALSE>>, <<0, TRUE, TRUE>>,
                      <<0, TRUE, FALSE>>, <<1, TRUE, TRUE>>}

\* one call convert_ecat_to_bids(in_file, out_file, output_dir, json) of the
\* script, dcm2niix doing any of what it can do
Convert(out_file, output_dir, json, next) ==
    \E o \in ConverterOutcomes :
        LET exit == o[1]
            nifti == o[2]
            sidecar == o[3]
            r == pet2bids_convert_ecat_to_bids(exit, nifti, sidecar, json)
        IN /\ tree' = tree
                  \cup (IF nifti THEN {Append(output_dir, out_file \o <<".nii.gz">>)} ELSE {})
                  \cup (IF sidecar THEN {Append(output_dir, out_file \o <<".json">>)} ELSE {})
           /\ trace' = trace
                  \o [i \in 1..r.calls |-> [Ev("dcm2niix") EXCEPT !.exit = exit, !.nifti = nifti]]
                  \o [i \in 1..r.merges |-> Ev("merge_json_files")]
           /\ IF r.raised = "none" THEN pc' = next /\ status' = status ELSE Exit(1)

\* lines 218-220
Convert1 ==
    /\ pc = "convert1"
    /\ Convert(pet_image, subject_dir, TRUE, "convert2")
    /\ UNCHANGED <<tsv, args, runs, lib, nameVars, mergeVars, avgVars, concVars>>

\* lines 222-224
Convert2 ==
    /\ pc = "convert2"
    /\ Convert(tx_image, Append(subject_dir, <<"pet">>), FALSE, "copy_t1")
    /\ UNCHANGED <<tsv, args, runs, lib, nameVars, mergeVars, avgVars, concVars>>

\* lines 226-232: the json the glob found is copied, then the image beside it,
\* which may not be there
CopyT1 ==
    /\ pc = "copy_t1"
    /\ \E image \in BOOLEAN :
         /\ tree' = tree
                \cup {subject_dir \o <<<<"anat">>, t1_str \o <<".json">>>>}
                \cup (IF image THEN {subject_dir \o <<<<"anat">>, t1_str \o <<".nii.gz">>>>} ELSE {})
         /\ trace' = Append(trace, Ev("copy_t1"))
         /\ IF image THEN pc' = "mandatory" /\ status' = status ELSE Exit(1)
    /\ UNCHANGED <<tsv, args, runs, lib, nameVars, mergeVars, avgVars, concVars>>

\* lines 234-240: the files shipped with the repository are there, or the first
\* of them is not
CopyMandatory ==
    /\ pc = "mandatory"
    /\ \E shipped \in BOOLEAN :
         IF shipped
         THEN /\ tree' = tree \cup {<<mandatory_files[i]>> : i \in 1..Len(mandatory_files)}
              /\ pc' = "participants" /\ status' = status
         ELSE tree' = tree /\ Exit(1)
    /\ trace' = Append(trace, Ev("copy_mandatory"))
    /\ UNCHANGED <<tsv, args, runs, lib, nameVars, mergeVars, avgVars, concVars>>

\* Variant that calls every subject healthy.
group_of_AlwaysHealthy(subject) == <<"Healthy">>

\* line 268
group_of(subject) == IF InSet("PX", subject) THEN <<"Patient">> ELSE <<"Healthy">>

\* Variant that appends without removing the existing entry.
participants_update_NoDrop(df, subject) ==
    Concat(df,
           DictOf(<<<<"participant_id", <<"sub", "-">> \o subject>>,
                    <<"site", <<"Montreal_SiemmensPET-HRRT">>>>,
                    <<"group", group_of(subject)>>>>))

\* lines 263-271 on the frame read from participants.tsv
participants_update(df, subject) ==
    Concat(DropWhere(df, "participant_id", <<"sub", "-">> \o subject),
           DictOf(<<<<"participant_id", <<"sub", "-">> \o subject>>,
                    <<"site", <<"Montreal_SiemmensPET-HRRT">>>>,
                    <<"group", group_of(subject)>>>>))

\* lines 279-286 on the frame read from the subject's sessions table
sessions_update(df, session) ==
    Concat(DropWhere(df, "session_id", session), DictOf(<<<<"session_id", session>>>>))

\* lines 247-271
Participants ==
    /\ pc = "participants"
    /\ LET t1 == Ensure(tsv, tsv_file, <<"sub", "ses", "date", "N.anat", "N.pet",
                                         "source", "user", "processing.time">>)
           t2 == Ensure(t1, participants_tsv, <<"participant_id", "site", "group">>)
       IN tsv' = Write(t2, participants_tsv,
                       participants_update(ReadCsv(t2[participants_tsv]), args.subject))
    /\ trace' = Append(trace, Ev("participants"))
    /\ pc' = "sessions"
    /\ UNCHANGED <<tree, args, status, runs, lib, nameVars, mergeVars, avgVars, concVars>>

\* lines 273-286
Sessions ==
    /\ pc = "sessions"
    /\ LET t1 == Ensure(tsv, sessions_tsv, <<"session_id">>)
       IN tsv' = Write(t1, sessions_tsv,
                       sessions_update(ReadCsv(t1[sessions_tsv]), args.session))
    /\ trace' = Append(trace, Ev("sessions"))
    /\ pc' = "log"
    /\ UNCHANGED <<tree, args, status, runs, lib, nameVars, mergeVars, avgVars, concVars>>

\* len(glob.glob(os.path.join(bids_dir, dir, "**", "*.nii.gz"), recursive=True))
count_nii(dir) ==
    Cardinality({p \in tree : /\ Len(p) >= 2
                              /\ p[1] = dir
                              /\ Last(p[Len(p)]) = ".nii.gz"})

\* lines 309-318: "user" is written twice, and the PET count goes under N.dwi
new_row(t) ==
    DictOf(<<<<"sub", args.subject>>, <<"ses", args.session>>, <<"date", <<"today">>>>,
             <<"N.anat", IntStr(count_nii(<<"anat">>))>>,
             <<"N.dwi", IntStr(count_nii(<<"pet">>))>>,
             <<"user", <<"unknown_user">>>>, <<"user", <<"USER">>>>,
             <<"processing.time", IntStr(t)>>>>)

\* lines 288-347: measure the time, then overwrite or append the log row. Where
\* the row exists, the assignment of line 341 sets it to missing values; a
\* pandas that refuses to put a missing value in an integer column raises
\* TypeError there instead, before the table is written.
Log ==
    /\ pc = "log"
    /\ \E t \in 1..MaxTime, refuses \in BOOLEAN :
         LET df == ReadCsv(tsv[tsv_file])
             d == new_row(t)
             existing_row_index == find_existing_row_index(df, GetVal(d, "sub"), GetVal(d, "ses"))
         IN IF existing_row_index # {}
            THEN IF refuses /\ HasIntColumn(df)
                 THEN /\ tsv' = tsv
                      /\ trace' = Append(trace, [Ev("log_refused") EXCEPT !.time = t])
                      /\ Exit(1)
                 ELSE /\ tsv' = Write(tsv, tsv_file,
                                      LocAssignSeries(df, existing_row_index, RowOver(df.header, d)))
                      /\ trace' = Append(trace, [Ev("log_overwrite") EXCEPT !.time = t])
                      /\ Exit(0)
            ELSE /\ tsv' = Write(tsv, tsv_file, Concat(df, d))
                 /\ trace' = Append(trace, [Ev("log_append") EXCEPT !.time = t])
                 /\ Exit(0)
    /\ UNCHANGED <<tree, args, runs, lib, nameVars, mergeVars, avgVars, concVars>>

\* a call of utils.convert_ecat_to_bids from another program, before the script
\* is first run
UtilsConvert ==
    /\ pc = "idle"
    /\ ~ lib.called
    /\ \E o \in ConverterOutcomes, json \in BOOLEAN :
         LET r == utils_convert_ecat_to_bids(o[1], o[2], o[3], json)
         IN lib' = [called |-> TRUE, raised |-> r.raised, calls |-> r.calls,
                    merges |-> r.merges, exit |-> o[1], nifti |-> o[2]]
    /\ UNCHANGED <<fsVars, procVars, nameVars, mergeVars, avgVars, concVars>>

Next ==
    \/ Invoke \/ ForceStep \/ CheckInputs \/ MakeDirs \/ Convert1 \/ Convert2
    \/ CopyT1 \/ CopyMandatory \/ Participants \/ Sessions \/ Log \/ UtilsConvert

Spec == Init /\ [][Next]_vars

\* --------------------------------------------- calls of the pure functions
InitName ==
    /\ kwargs \in KwargsSet
    /\ built = NoBuild
    /\ json_pet = Absent
    /\ json_subject = Absent
    /\ merged = NoMerge
    /\ AverageIdle
    /\ ScriptIdle

\* BIDSpetName(**kwargs).build()
CallBIDSpetName ==
    /\ built = NoBuild
    /\ built' = [op |-> "BIDSpetName", raised |-> "none",
                 name |-> BIDSpetName_build(kwargs)]
    /\ UNCHANGED <<kwargs, mergeVars, avgVars, concVars, scriptVars>>

\* BIDSName(**kwargs).build()
CallBIDSName ==
    /\ built = NoBuild
    /\ built' = IF BIDSName_init_raises(kwargs)
                THEN [op |-> "BIDSName", raised |-> "ValueError", name |-> <<>>]
                ELSE [op |-> "BIDSName", raised |-> "none",
                      name |-> BIDSName_build(kwargs)]
    /\ UNCHANGED <<kwargs, mergeVars, avgVars, concVars, scriptVars>>

\* BIDSderivativeName(**kwargs).build()
CallBIDSderivativeName ==
    /\ built = NoBuild
    /\ built' = [op |-> "BIDSderivativeName", raised |-> "none",
                 name |-> BIDSderivativeName_build(kwargs)]
    /\ UNCHANGED <<kwargs, mergeVars, avgVars, concVars, scriptVars>>

InitMerge ==
    /\ kwargs = <<>>
    /\ built = NoBuild
    /\ json_pet \in JsonFiles
    /\ json_subject \in JsonFiles
    /\ merged = NoMerge
    /\ AverageIdle
    /\ ScriptIdle

\* a call merge_json_files(json_pet, json_subject)
MergeJsonFiles ==
    /\ ~ merged.called
    /\ LET out == MergeOutcome(json_pet, json_subject)
       IN /\ json_pet' = out.pet
          /\ merged' = [called |-> TRUE, raised |-> out.raised,
                        pre_pet |-> json_pet, pre_subject |-> json_subject]
    /\ UNCHANGED <<json_subject, nameVars, avgVars, concVars, scriptVars>>

NextMerge == MergeJsonFiles

SpecMerge == InitMerge /\ [][NextMerge]_vars

InitAverage ==
    /\ kwargs = <<>>
    /\ built = NoBuild
    /\ json_pet = Absent
    /\ json_subject = Absent
    /\ merged = NoMerge
    /\ pet_trc \in AverageInputs
    /\ averaged = NoAverage
    /\ ScriptIdle

\* a call compute_average_4D_image(pet_trc)
CallComputeAverage ==
    /\ ~ averaged.called
    /\ averaged' = compute_average_4D_image(pet_trc)
    /\ UNCHANGED <<pet_trc, nameVars, mergeVars, concVars, scriptVars>>

NextAverage == CallComputeAverage

SpecAverage == InitAverage /\ [][NextAverage]_vars

NextName == CallBIDSpetName \/ CallBIDSName \/ CallBIDSderivativeName

SpecName == InitName /\ [][NextName]_vars

\* ------------------------------- one invocation on a dataset that is there
\* The BIDS directory given with -bids may hold the output of earlier
\* invocations: any of these subject/session directories, each with an image
DatasetDirs ==
    {subject_dir_of(subject_of(sub), session_of(ses)) :
        sub \in {<<"01">>, <<"PX", "02">>}, ses \in {<<"01">>, <<"02">>}}
TreeOf(dirs) ==
    {<<>>} \cup UNION {makedirs({<<>>}, Append(d, <<"anat">>))
                         \cup {d \o << <<"anat">>, <<"T1w", ".nii.gz">> >>} : d \in dirs}
DatasetTrees == {TreeOf(dirs) : dirs \in SUBSET DatasetDirs}

\* the log row an earlier invocation appended (lines 309-318, 345)
prior_row(subject, session) ==
    DictOf(<<<<"sub", subject>>, <<"ses", session>>, <<"date", <<"today">>>>,
             <<"N.anat", IntStr(0)>>, <<"N.dwi", IntStr(0)>>,
             <<"user", <<"USER">>>>, <<"processing.time", IntStr(1)>>>>)
\* and its tables, as lines 247-286 and 336-347 leave them after invocations
\* for sub 01 (ses 01) and sub PX02 (ses 02)
PriorTables ==
    LET s1 == subject_of(<<"01">>)
        s2 == subject_of(<<"PX", "02">>)
        t1 == session_of(<<"01">>)
        t2 == session_of(<<"02">>)
        sessions(sub) == << <<"sub", "-">> \o sub, <<"sub", "-">> \o sub \o <<"_sessions.tsv">> >>
        w1 == Write(<<>>, participants_tsv,
                    participants_update(
                        participants_update(EmptyFrame(<<"participant_id", "site", "group">>), s1),
                        s2))
        w2 == Write(w1, sessions(s1), sessions_update(EmptyFrame(<<"session_id">>), t1))
        w3 == Write(w2, sessions(s2), sessions_update(EmptyFrame(<<"session_id">>), t2))
    IN Write(w3, tsv_file,
             Concat(Concat(EmptyFrame(<<"sub", "ses", "date", "N.anat", "N.pet", "source",
                                        "user", "processing.time">>),
                           prior_row(s1, t1)),
                    prior_row(s2, t2)))

\* the last invocation the bound allows, on such a dataset
InitDataset ==
    /\ LibIdle
    /\ tree \in DatasetTrees
    /\ tsv \in {<<>>, PriorTables}
    /\ pc = "idle"
    /\ args = NoArgs
    /\ trace = <<>>
    /\ status = 0
    /\ runs = MaxRuns - 1
    /\ lib = NoLib
    /\ procs = <<>>

SpecDataset == InitDataset /\ [][Next]_vars

\* ------------------------------------- two invocations at their bookkeeping
\* Two pet2bids.py processes given the same BIDS directory and two different
\* subjects have both converted and stand before line 247. Each statement that
\* tests, reads or writes a table file is a step of its own; nothing in the
\* script locks a file.
Procs == {1, 2}
NoFrame == [header |-> <<>>, rows |-> <<>>]
ConcurrentStarts ==
    {[i \in Procs |->
        [pc |-> "log_check",
         subject |-> subject_of(IF i = 1 THEN <<"01">> ELSE <<"PX", "02">>),
         session |-> session_of(ses[i]),
         df |-> NoFrame,
         df_log |-> NoFrame]] : ses \in [Procs -> {<<"01">>, <<"02">>}]}

At(i, where) == procs[i].pc = where
Goto(i, where) == [procs EXCEPT ![i].pc = where]
FilesOnly == UNCHANGED <<tree, procVars, lib, nameVars, mergeVars, avgVars>>

\* line 249
LogCheck(i) ==
    /\ At(i, "log_check")
    /\ procs' = Goto(i, IF tsv_file \in DOMAIN tsv THEN "part_check" ELSE "log_create")
    /\ UNCHANGED tsv /\ FilesOnly

\* lines 251-253
LogCreate(i) ==
    /\ At(i, "log_create")
    /\ tsv' = Write(tsv, tsv_file, EmptyFrame(<<"sub", "ses", "date", "N.anat", "N.pet",
                                                "source", "user", "processing.time">>))
    /\ procs' = Goto(i, "part_check")
    /\ FilesOnly

\* line 257
PartCheck(i) ==
    /\ At(i, "part_check")
    /\ procs' = Goto(i, IF participants_tsv \in DOMAIN tsv THEN "part_read" ELSE "part_create")
    /\ UNCHANGED tsv /\ FilesOnly

\* lines 259-261
PartCreate(i) ==
    /\ At(i, "part_create")
    /\ tsv' = Write(tsv, participants_tsv, EmptyFrame(<<"participant_id", "site", "group">>))
    /\ procs' = Goto(i, "part_read")
    /\ FilesOnly

\* line 264
PartRead(i) ==
    /\ At(i, "part_read")
    /\ procs' = [procs EXCEPT ![i].pc = "part_write",
                              ![i].df = ReadCsv(tsv[participants_tsv])]
    /\ UNCHANGED tsv /\ FilesOnly

\* Variant that reads the table again under a lock held over the write.
PartWrite_Locked(i) ==
    /\ At(i, "part_write")
    /\ tsv' = Write(tsv, participants_tsv,
                    participants_update(ReadCsv(tsv[participants_tsv]), procs[i].subject))
    /\ procs' = Goto(i, "sessions")
    /\ FilesOnly

\* lines 265-271, on the frame read at line 264
PartWrite(i) ==
    /\ At(i, "part_write")
    /\ tsv' = Write(tsv, participants_tsv, participants_update(procs[i].df, procs[i].subject))
    /\ procs' = Goto(i, "sessions")
    /\ FilesOnly

\* lines 274-286: the sessions table of the subject, a file of its own
SessionsOf(i) ==
    /\ At(i, "sessions")
    /\ LET path == << <<"sub", "-">> \o procs[i].subject,
                      <<"sub", "-">> \o procs[i].subject \o <<"_sessions.tsv">> >>
           t1 == Ensure(tsv, path, <<"session_id">>)
       IN tsv' = Write(t1, path, sessions_update(ReadCsv(t1[path]), procs[i].session))
    /\ procs' = Goto(i, "log_read")
    /\ FilesOnly

\* line 308
LogRead(i) ==
    /\ At(i, "log_read")
    /\ procs' = [procs EXCEPT ![i].pc = "log_write", ![i].df_log = ReadCsv(tsv[tsv_file])]
    /\ UNCHANGED tsv /\ FilesOnly

\* lines 336-345 on the frame read at line 308
log_update(df, d) ==
    IF find_existing_row_index(df, GetVal(d, "sub"), GetVal(d, "ses")) # {}
    THEN LocAssignSeries(df, find_existing_row_index(df, GetVal(d, "sub"), GetVal(d, "ses")),
                         RowOver(df.header, d))
    ELSE Concat(df, d)

\* lines 309-347; line 341 may raise as in Log
LogWrite(i) ==
    /\ At(i, "log_write")
    /\ LET df == procs[i].df_log
           d == prior_row(procs[i].subject, procs[i].session)
       IN \E refuses \in BOOLEAN :
            IF /\ find_existing_row_index(df, GetVal(d, "sub"), GetVal(d, "ses")) # {}
               /\ refuses
               /\ HasIntColumn(df)
            THEN tsv' = tsv /\ procs' = Goto(i, "failed")
            ELSE tsv' = Write(tsv, tsv_file, log_update(df, d)) /\ procs' = Goto(i, "done")
    /\ FilesOnly

InitConcurrent ==
    /\ LibIdle
    /\ tree = {<<>>}
    /\ tsv \in {<<>>, PriorTables}
    /\ pc = "idle"
    /\ args = NoArgs
    /\ trace = <<>>
    /\ status = 0
    /\ runs = 0
    /\ lib = NoLib
    /\ procs \in ConcurrentStarts

NextConcurrent ==
    \E i \in Procs :
        \/ LogCheck(i) \/ LogCreate(i) \/ PartCheck(i) \/ PartCreate(i) \/ PartRead(i)
        \/ PartWrite(i) \/ SessionsOf(i) \/ LogRead(i) \/ LogWrite(i)

SpecConcurrent == InitConcurrent /\ [][NextConcurrent]_vars

\* ================================================================== claims
Tokens(name) == Split(name, "_")
IsTag(tok) == Len(tok) >= 2 /\ tok[2] = "-"
InSeq(x, seq) == \E i \in 1..Len(seq) : seq[i] = x
RankIn(x, seq) == CHOOSE i \in 1..Len(seq) : seq[i] = x
RECURSIVE DropKeysOutside(_, _)
DropKeysOutside(kw, allowed) ==
    IF kw = <<>> THEN <<>>
    ELSE (IF InSeq(Head(kw)[1], allowed) THEN <<Head(kw)>> ELSE <<>>)
         \o DropKeysOutside(Tail(kw), allowed)

CanonicalPetOrder == <<"sub", "ses", "task", "trc", "rec", "run", "desc">>
ExampleTags == {<<"sub", StrVal(<<"01">>)>>, <<"ses", StrVal(<<"01">>)>>,
                <<"trc", StrVal(<<"mk6240">>)>>, <<"rec", StrVal(<<"acdyn">>)>>}
ExampleName == <<"sub", "-", "01", "_", "ses", "-", "01", "_", "trc", "-", "mk6240",
                 "_", "rec", "-", "acdyn", "_", "pet">>

\* C1: whatever the order the tags are supplied in, BIDSpetName.build() returns
\* one 'tag-value' token per recognized tag present, in the order sub, ses, task,
\* trc, rec, run, desc, then the token 'pet', joined by underscores; the tags
\* {sub:01, ses:01, trc:mk6240, rec:acdyn} give sub-01_ses-01_trc-mk6240_rec-acdyn_pet.
C1_PetNameCanonicalOrder ==
    built.op = "BIDSpetName" =>
        LET toks == Tokens(built.name)
            n == Len(toks)
        IN /\ built.raised = "none"
           /\ toks[n] = <<"pet">>
           /\ n - 1 = Cardinality({i \in 1..Len(kwargs) : InSeq(kwargs[i][1], CanonicalPetOrder)})
           /\ \A i \in 1..(n - 1) :
                /\ IsTag(toks[i])
                /\ InSeq(toks[i][1], CanonicalPetOrder)
                /\ HasKey(kwargs, toks[i][1])
                /\ toks[i] = <<toks[i][1], "-">> \o PyStr(GetVal(kwargs, toks[i][1]))
           /\ \A i, j \in 1..(n - 1) :
                i < j => RankIn(toks[i][1], CanonicalPetOrder) < RankIn(toks[j][1], CanonicalPetOrder)
           /\ ({kwargs[i] : i \in 1..Len(kwargs)} = ExampleTags => built.name = ExampleName)

\* C1 witness: the example's tags supplied in another order than the canonical one
C1_Witness ==
    /\ built.op = "BIDSpetName"
    /\ kwargs = <<<<"trc", StrVal(<<"mk6240">>)>>, <<"sub", StrVal(<<"01">>)>>,
                  <<"ses", StrVal(<<"01">>)>>, <<"rec", StrVal(<<"acdyn">>)>>>>
    /\ built.name = ExampleName

AnatomicalSuffixes == {<<"FLAIR">>, <<"PDT2">>, <<"PDw">>, <<"T1w">>, <<"T2starw">>,
                       <<"T2w">>, <<"UNIT1">>, <<"angio">>, <<"inplaneT1">>,
                       <<"inplaneT2">>}

\* C2: constructing the anatomical builder with a suffix outside the enumerated
\* set raises ValueError and no name is produced; a suffix in the set never raises.
C2_AnatSuffixValidated ==
    (built.op = "BIDSName" /\ HasKey(kwargs, "suffix")) =>
        IF PyStr(GetVal(kwargs, "suffix")) \in AnatomicalSuffixes
        THEN built.raised = "none"
        ELSE built.raised = "ValueError" /\ built.name = <<>>

\* C2 witness: the anatomical builder constructed with suffix 'pet'
C2_Witness ==
    /\ built.op = "BIDSName"
    /\ HasKey(kwargs, "suffix")
    /\ GetVal(kwargs, "suffix") = StrVal(<<"pet">>)
    /\ built.raised = "ValueError"

\* C3: for every builder, the name built from a mapping that carries a suffix
\* ends with that suffix as its last underscore-separated token (the PET
\* builder's suffix being the fixed token 'pet').
C3_NameEndsWithSuffix ==
    (built.op # "none" /\ built.raised = "none" /\ HasKey(kwargs, "suffix")) =>
        Last(Tokens(built.name)) =
            IF built.op = "BIDSpetName" THEN <<"pet">>
            ELSE PyStr(GetVal(kwargs, "suffix"))

AllowList(op) ==
    CASE op = "BIDSpetName" -> PetKeys
      [] op = "BIDSName" -> AnatKeys
      [] OTHER -> DerivativeKeys

BuildOf(op, kw) ==
    CASE op = "BIDSpetName" -> BIDSpetName_build(kw)
      [] op = "BIDSName" -> BIDSName_build(kw)
      [] OTHER -> BIDSderivativeName_build(kw)

\* C4: a tag whose key is outside the builder's allow-list is silently dropped:
\* build() raises nothing, its output is the output for the same mapping without
\* the unknown keys, and every 'key-' prefix of the output is on the allow-list.
C4_UnknownKeysDropped ==
    (built.op # "none" /\ built.raised = "none") =>
        /\ built.name = BuildOf(built.op, DropKeysOutside(kwargs, AllowList(built.op)))
        /\ \A i \in 1..Len(Tokens(built.name)) :
             IsTag(Tokens(built.name)[i]) =>
                InSeq(Tokens(built.name)[i][1], AllowList(built.op))

\* C4 witness: the anatomical builder given the unknown key 'foo' beside known ones
C4_Witness ==
    /\ built.op = "BIDSName"
    /\ built.raised = "none"
    /\ HasKey(kwargs, "foo")
    /\ HasKey(kwargs, "sub")
    /\ built.name # <<>>

DocKeys(text) == {text[i][1] : i \in 1..Len(text)}
\* the value a JSON text gives a key: the one written last
DocValue(text, k) ==
    text[CHOOSE i \in 1..Len(text) :
            text[i][1] = k /\ \A j \in (i + 1)..Len(text) : text[j][1] # k][2]

C6_MergeAbsentExisting ==
    (merged.called /\ merged.pre_pet.exists /\ ~ merged.pre_subject.exists) =>
        /\ merged.raised = "none"
        /\ json_pet.exists
        /\ DocKeys(json_pet.text) = DocKeys(merged.pre_pet.text)
        /\ \A k \in DocKeys(json_pet.text) :
             DocValue(json_pet.text, k) = DocValue(merged.pre_pet.text, k)

\* C6 witness: a two-member new document merged with no existing document
C6_Witness ==
    /\ merged.called
    /\ ~ merged.pre_subject.exists
    /\ merged.pre_pet = File(<<<<"K", "B">>, <<"L", "A">>>>)
    /\ merged.raised = "none"

\* C7: with no file at the new document's path the call raises
\* FileNotFoundError whether or not the existing document exists, creates no
\* file at the new path and leaves the existing document as it was.
C7_MergeNewAbsentFails ==
    (merged.called /\ ~ merged.pre_pet.exists) =>
        /\ merged.raised = "FileNotFoundError"
        /\ json_pet = Absent
        /\ json_subject = merged.pre_subject

\* C7 witness: the new document absent while the existing one is present
C7_Witness ==
    /\ merged.called
    /\ ~ merged.pre_pet.exists
    /\ merged.pre_subject = File(<<<<"K", "A">>>>)
    /\ merged.raised = "FileNotFoundError"

Count(seq, name) == Cardinality({i \in 1..Len(seq) : seq[i].ev = name})
ConverterFailed(e) == e.ev = "dcm2niix" /\ (e.exit # 0 \/ ~ e.nifti)

\* C8: each convert_ecat_to_bids call runs the converter exactly once; when the
\* converter exits non-zero, or exits zero without the NIfTI being there, the
\* step is fatal (exit status 1 in pet2bids, RuntimeError in utils): the
\* converter is not run again, no sidecar merge is made, and the script does none
\* of its later steps.
C8_ConverterFailureIsFatal ==
    /\ [](/\ \A i \in 1..Len(trace) :
                ConverterFailed(trace[i]) => i = Len(trace) /\ pc = "exit" /\ status = 1
          /\ lib.called =>
                /\ lib.calls = 1
                /\ (lib.exit # 0 \/ ~ lib.nifti) =>
                      lib.raised = "RuntimeError" /\ lib.merges = 0)
    /\ [][(pc = "convert1" \/ pc = "convert2") =>
            Count(trace', "dcm2niix") = Count(trace, "dcm2niix") + 1]_vars

\* C8 witness: the script ended by a converter that exited zero and left no NIfTI
C8_Witness ==
    /\ pc = "exit"
    /\ status = 1
    /\ trace # <<>>
    /\ Last(trace).ev = "dcm2niix"
    /\ Last(trace).exit = 0
    /\ ~ Last(trace).nifti
    /\ Count(trace, "dcm2niix") = 2

LogRowsOf(t, sub, ses) ==
    {i \in 1..Len(ReadCsv(t[tsv_file]).rows) :
        /\ ReadCsv(t[tsv_file]).rows[i]["sub"] = sub
        /\ ReadCsv(t[tsv_file]).rows[i]["ses"] = ses}

\* C9: when the bookkeeping of a run ends for a (subject, session) that already
\* has a row in the processing-log table, the table then holds exactly one row
\* for that key, with this run's processing time, and has as many rows as before.
C9_LogUpsert ==
    [][(/\ pc = "log"
        /\ status' = 0
        /\ LogRowsOf(tsv, args.subject, args.session) # {}) =>
          LET after == ReadCsv(tsv'[tsv_file])
              mine == LogRowsOf(tsv', args.subject, args.session)
          IN /\ Cardinality(mine) = 1
             /\ \A i \in mine : after.rows[i]["processing.time"] = IntStr(Last(trace').time)
             /\ Len(after.rows) = Len(ReadCsv(tsv[tsv_file]).rows)]_vars

HasUniqueIds(file, col) ==
    LET df == ReadCsv(file)
    IN \A i, j \in 1..Len(df.rows) : df.rows[i][col] = df.rows[j][col] => i = j
IsSessionsTable(path) == Len(path) = 2 /\ Last(path[2]) = "_sessions.tsv"
IsParticipantsTable(path) == path = << <<"participants.tsv">> >>
HasId(file, col, prefix, id) ==
    LET df == ReadCsv(file)
    IN \E i \in 1..Len(df.rows) : Remove(df.rows[i][col], prefix) = Remove(id, prefix)

\* C10: whatever invocations have run, the participants table holds at most one
\* row per participant id and each subject's sessions table at most one row per
\* session id; after a completed invocation its subject and its session are there.
C10_OneRowPerId ==
    /\ \A path \in DOMAIN tsv :
          /\ IsParticipantsTable(path) => HasUniqueIds(tsv[path], "participant_id")
          /\ IsSessionsTable(path) => HasUniqueIds(tsv[path], "session_id")
    /\ (pc = "exit" /\ status = 0) =>
          /\ \E path \in DOMAIN tsv :
                /\ IsParticipantsTable(path)
                /\ HasId(tsv[path], "participant_id", <<"sub", "-">>, args.sub)
          /\ \E path \in DOMAIN tsv :
                /\ IsSessionsTable(path)
                /\ Remove(path[1], <<"sub", "-">>) = Remove(args.sub, <<"sub", "-">>)
                /\ HasId(tsv[path], "session_id", <<"ses", "-">>, args.ses)

\* C10 witness: a second completed invocation that repeats the subject of the
\* first with another session, one participant row and two session rows
C10_Witness ==
    /\ pc = "exit"
    /\ status = 0
    /\ runs = 2
    /\ \E path \in DOMAIN tsv :
          IsParticipantsTable(path) /\ Len(tsv[path].lines) = 1
    /\ \E path \in DOMAIN tsv :
          IsSessionsTable(path) /\ Len(tsv[path].lines) = 2

\* the rows of a table file, each cut down to the columns in cols
RowsOn(file, cols) ==
    LET df == ReadCsv(file)
    IN [i \in 1..Len(df.rows) |-> [c \in cols |-> df.rows[i][c]]]
Columns(file) == SeqToSet(ReadCsv(file).header)
Copies(rows, r) == Cardinality({i \in 1..Len(rows) : rows[i] = r})
\* the row of the table at path that an invocation with arguments a writes
OwnsRow(path, r, a) ==
    IF IsParticipantsTable(path) THEN r["participant_id"] = <<"sub", "-">> \o a.subject
    ELSE IF IsSessionsTable(path)
         THEN path[1] = <<"sub", "-">> \o a.subject /\ r["session_id"] = a.session
         ELSE r["sub"] = a.subject /\ r["ses"] = a.session

C12_NoTeardownBeforeValidation ==
    (pc = "exit" /\ trace # <<>> /\ Last(trace).ev \in {"no_pet_dir", "no_bids_dir"}) =>
        /\ status = 1
        /\ Count(trace, "rmtree") = 0

\* C13: an invocation without -force whose subject/session output directory is
\* already there changes no directory, file or table at any of its steps, runs
\* no makedirs and no converter, and ends with a non-zero status.
C13_ExistingOutputIsFatal ==
    [][/\ (/\ runs' = runs + 1
           /\ ~ args'.force
           /\ subject_dir_of(args'.subject, args'.session) \in tree) =>
             /\ tree' = tree /\ tsv' = tsv
             /\ pc' \in {"force", "exit"}
             /\ (pc' = "exit" => status' # 0)
       /\ (pc \in {"force", "check"} /\ ~ args.force /\ subject_dir \in tree) =>
             /\ tree' = tree /\ tsv' = tsv
             /\ pc' = (IF pc = "force" THEN "check" ELSE "exit")
             /\ (pc' = "exit" => status' # 0)
             /\ Count(trace', "makedirs") = 0
             /\ Count(trace', "dcm2niix") = 0
             /\ Count(trace', "rmtree") = 0]_vars

\* C13 witness: a run without -force ended by the existing output directory
C13_Witness ==
    /\ pc = "exit"
    /\ status = 1
    /\ ~ args.force
    /\ trace = <<Ev("output_exists")>>
    /\ subject_dir \in tree

\* C14: no step removes a table, and a step removes files or directories only
\* when it is the -force teardown of an invocation: everything it removes is the
\* invocation's subject/session directory or lies below it, and no table does.
\* Other subjects' trees, other sessions of the subject, the subject's own
\* directory, its sessions table and the dataset-level tables stay.
C14_ErasesOnlyForcedOutputTree ==
    [][/\ DOMAIN tsv \subseteq DOMAIN tsv'
       /\ ~ (tree \subseteq tree') =>
             /\ pc = "force"
             /\ args.force
             /\ \A p \in tree \ tree' : IsUnder(p, subject_dir)
             /\ \A path \in DOMAIN tsv : ~ IsUnder(path, subject_dir)
             /\ SubSeq(subject_dir, 1, 1) \in tree']_vars

\* C14 witness: -force has just erased the output directory, while another
\* session of the subject, another subject's tree and the tables are there
C14_Witness ==
    /\ pc = "check"
    /\ args.force
    /\ trace = <<Ev("rmtree")>>
    /\ subject_dir \notin tree
    /\ \E p \in tree : Len(p) = 2 /\ p[1] = subject_dir[1] /\ p[2] # subject_dir[2]
    /\ \E p \in tree : Len(p) = 2 /\ p[1] # subject_dir[1]
    /\ sessions_tsv \in DOMAIN tsv
    /\ participants_tsv \in DOMAIN tsv
    /\ tsv_file \in DOMAIN tsv

\* C15: a run that found no T1w for the subject has reported it and is not ended
\* by that: it goes on to the input checks and the conversion; a run that found
\* no input PET directory has ended with a non-zero status.
C15_MissingT1IsWarning ==
    /\ (trace # <<>> /\ trace[1].ev = "no_t1") => ~ (pc = "exit" /\ Len(trace) = 1)
    /\ (trace # <<>> /\ Last(trace).ev = "no_pet_dir") => (pc = "exit" /\ status # 0)

\* the names the paths and ids are to carry: each prefix once
SubjectLabel(a) == <<"sub", "-">> \o Remove(a.sub, <<"sub", "-">>)
SessionLabel(a) == <<"ses", "-">> \o Remove(a.ses, <<"ses", "-">>)

\* C16: for -sub S and -ses T given with or without their prefixes, once the
\* skeleton is made it is <bids>/sub-S/ses-T with anat and pet below it; once
\* the tables are written the subject's sessions table is
\* <bids>/sub-S/sub-S_sessions.tsv and the participants table has a row with
\* participant id sub-S: 'sub-' and 'ses-' appear exactly once in each.
C16_SinglePrefixPaths ==
    LET dir == <<SubjectLabel(args), SessionLabel(args)>>
    IN /\ Count(trace, "makedirs") > 0 =>
            {dir, Append(dir, <<"anat">>), Append(dir, <<"pet">>)} \subseteq tree
       /\ Count(trace, "sessions") > 0 =>
            <<SubjectLabel(args), SubjectLabel(args) \o <<"_sessions.tsv">>>> \in DOMAIN tsv
       /\ Count(trace, "participants") > 0 =>
            \E i \in 1..Len(RowsOn(tsv[participants_tsv], {"participant_id"})) :
               RowsOn(tsv[participants_tsv], {"participant_id"})[i]["participant_id"]
                  = SubjectLabel(args)

\* C17: whatever invocations have run, each table has the header it was created
\* with: the log sub, ses, date, N.anat, N.pet, source, user, processing.time,
\* the participants table participant_id, site, group, a sessions table
\* session_id; and every log row written by a run has its PET count under N.pet.
C17_FixedHeaders ==
    \A path \in DOMAIN tsv :
       LET df == ReadCsv(tsv[path])
       IN IF IsParticipantsTable(path) THEN df.header = <<"participant_id", "site", "group">>
          ELSE IF IsSessionsTable(path) THEN df.header = <<"session_id">>
          ELSE /\ df.header = <<"sub", "ses", "date", "N.anat", "N.pet", "source", "user",
                                "processing.time">>
               /\ \A i \in 1..Len(df.rows) :
                     df.rows[i]["sub"] # NaN => df.rows[i]["N.pet"] # NaN

\* C18: every row of the participants table has group 'Patient' exactly when
\* its participant id contains 'PX' and 'Healthy' otherwise, and the one site;
\* once an invocation has written its participant row, the row of its subject is
\* there with that group, also when the subject had a row before.
C18_GroupFromSubjectId ==
    participants_tsv \in DOMAIN tsv =>
        LET rows == RowsOn(tsv[participants_tsv], {"participant_id", "site", "group"})
            Expected(id) == IF \E k \in 1..Len(id) : id[k] = "PX"
                            THEN <<"Patient">> ELSE <<"Healthy">>
        IN /\ \A i \in 1..Len(rows) :
                /\ rows[i]["group"] = Expected(rows[i]["participant_id"])
                /\ rows[i]["site"] = <<"Montreal_SiemmensPET-HRRT">>
           /\ Count(trace, "participants") > 0 =>
                \E i \in 1..Len(rows) :
                   /\ Remove(rows[i]["participant_id"], <<"sub", "-">>)
                         = Remove(args.sub, <<"sub", "-">>)
                   /\ rows[i]["group"] = Expected(args.sub)

\* C18 witness: a patient converted a second time, for another session: one
\* participant row, group 'Patient'
C18_Witness ==
    /\ pc = "exit"
    /\ status = 0
    /\ runs = 2
    /\ args.sub = <<"PX", "02">>
    /\ Len(tsv[participants_tsv].lines) = 1
    /\ RowsOn(tsv[participants_tsv], {"group"})[1]["group"] = <<"Patient">>
    /\ Len(tsv[sessions_tsv].lines) = 2

\* C19: a call of compute_average_4D_image raises nothing; given a list of
\* paths it returns a list with one averaged image per path (a one-element list
\* for a list of exactly one 4D image), given a single path string it returns a
\* single image.
C19_AverageKeepsInputKind ==
    averaged.called =>
        /\ averaged.raised = "none"
        /\ IF pet_trc.is_str
           THEN ~ averaged.is_list /\ Len(averaged.images) = 1
           ELSE /\ averaged.is_list
                /\ Len(averaged.images) = Len(pet_trc.images)

BothDone == \A i \in Procs : procs # <<>> /\ procs[i].pc = "done"

\* C20: the bookkeeping takes no lock and never reads a table again before
\* writing it: when two invocations for different subjects have both completed,
\* the participants table is exactly what one of them computed from its own
\* read, and so is the log; the row of the other invocation is in the table
\* only if that read had seen it. In the interleaving where both read before
\* either writes, the final table holds the row of one invocation only.
C20_LastWriterWins ==
    BothDone =>
        /\ \E k \in Procs :
              ReadCsv(tsv[participants_tsv])
                 = participants_update(procs[k].df, procs[k].subject)
        /\ \E k \in Procs :
              ReadCsv(tsv[tsv_file])
                 = log_update(procs[k].df_log, prior_row(procs[k].subject, procs[k].session))

\* C20 witness: both invocations read each table before either wrote it and
\* both are done; the participants table and the log each hold one row only
C20_Witness ==
    /\ BothDone
    /\ \A i \in Procs : procs[i].df.rows = <<>> /\ procs[i].df_log.rows = <<>>
    /\ Len(tsv[participants_tsv].lines) = 1
    /\ Len(tsv[tsv_file].lines) = 1

\* a run ended by a failing conversion step: the converter ran, the T1 copy
\* was not reached, the status is 1
FailedAtConversion ==
    /\ pc = "exit"
    /\ status = 1
    /\ Count(trace, "dcm2niix") > 0
    /\ Count(trace, "copy_t1") = 0

\* C21: a run that fails at a conversion step leaves the output directory it
\* made in place. The next invocation for the same subject and session finds
\* it there: without -force it removes nothing, runs no makedirs and no
\* converter, and ends with a non-zero status, by the output-directory-exists
\* error unless the PET directory is missing; with -force it removes the tree
\* and then, unless the PET directory is missing, goes on to make the skeleton.
C21_FailedRunLeavesTree ==
    [][/\ FailedAtConversion =>
            /\ {subject_dir, Append(subject_dir, <<"anat">>), Append(subject_dir, <<"pet">>)}
                  \subseteq tree
            /\ (runs' = runs + 1 /\ args'.subject = args.subject
                                 /\ args'.session = args.session) =>
                  subject_dir_of(args'.subject, args'.session) \in tree'
       /\ (pc = "force" /\ subject_dir \in tree) =>
            /\ pc' = "check"
            /\ IF args.force
               THEN /\ \A p \in tree' : ~ IsUnder(p, subject_dir)
                    /\ trace' = <<Ev("rmtree")>>
               ELSE tree' = tree /\ trace' = <<>>
       /\ (pc = "check" /\ ~ args.force /\ subject_dir \in tree) =>
            /\ pc' = "exit" /\ status' # 0
            /\ tree' = tree
            /\ trace' \in {<<Ev("output_exists")>>, <<Ev("no_pet_dir")>>}
       /\ (pc = "check" /\ trace = <<Ev("rmtree")>>) =>
            /\ subject_dir \notin tree
            /\ \/ pc' = "makedirs"
               \/ pc' = "exit" /\ Last(trace').ev = "no_pet_dir"
       /\ (pc = "makedirs" /\ trace = <<Ev("rmtree")>>) =>
            subject_dir \in tree' /\ pc' = "convert1"]_vars

\* C21 witness: the second run, without -force, ended by the output directory
\* that a first run left behind when its conversion failed (no T1 was copied,
\* no table written)
C21_Witness ==
    /\ runs = 2
    /\ pc = "exit"
    /\ status = 1
    /\ ~ args.force
    /\ trace = <<Ev("output_exists")>>
    /\ subject_dir \in tree
    /\ \A p \in tree : ~ (Len(p) = 4 /\ p[3] = <<"anat">>)
    /\ tsv = <<>>

====
